---- MODULE Spec2Model ----
(***************************************************************************)
(* Star ImageMaster: orphan tracking (OrphanDetector), link rewriting      *)
(* (LinkUpdater) and the event handlers of the plugin (main.ts), over an   *)
(* abstract vault and metadata cache of the host application.              *)
(*                                                                         *)
(* A path is a sequence of segments, <<"a", "x.png">> for a/x.png.         *)
(***************************************************************************)
EXTENDS Integers, Sequences, FiniteSets, TLC

(***************************************************************************)
(* Bounds of the model.                                                    *)
(***************************************************************************)
\* largest numeric suffix tried by the name-conflict loop before the model
\* gives the move up
MaxCounter == 1
\* setTimeout callbacks of handleNoteDelete that may be pending at once
MaxTimers == 1
\* scanOrphanImages activations that may be suspended at once
MaxScans == 1
\* embeds a note may hold in the orphan-tracking specification
MaxEmbeds == 1

(***************************************************************************)
(* Paths and file names.                                                   *)
(***************************************************************************)
\* DEFAULT_SETTINGS.orphanFolder
OrphanFolder == "_orphaned"

BaseStems == {"x"}
Exts == {"png"}
UserFolders == {<<"a">>}

SuffixedStems == {s \o "_" \o ToString(k) : s \in BaseStems, k \in 1..MaxCounter}
Stems == BaseStems \cup SuffixedStems

MakeName(stem, ext) == stem \o "." \o ext

BaseNames == {MakeName(s, e) : s \in BaseStems, e \in Exts}
Names == {MakeName(s, e) : s \in Stems, e \in Exts}

\* fileName.replace(/\.[^.]+$/, '') and fileName.split('.').pop()
SplitName(name) == CHOOSE se \in Stems \X Exts : MakeName(se[1], se[2]) = name
NameWithoutExt(name) == SplitName(name)[1]
NameExt(name) == SplitName(name)[2]

\* the image paths a user creates, and those a move into the orphan folder makes
UserImagePaths == {f \o <<n>> : f \in UserFolders, n \in BaseNames}
OrphanFolderPaths == {<<OrphanFolder, n>> : n \in Names}
ImagePaths == UserImagePaths \cup OrphanFolderPaths

Notes == {<<"a", "b", "note.md">>, <<"n2.md">>}

Last(path) == path[Len(path)]
FileName(path) == Last(path)

\* vault.getFiles(): the members of S in the vault's listing order
RECURSIVE SeqOfSet(_)
SeqOfSet(S) ==
  IF S = {} THEN <<>>
  ELSE LET p == CHOOSE q \in S : TRUE
       IN  <<p>> \o SeqOfSet(S \ {p})

Range(s) == {s[i] : i \in DOMAIN s}

\* isImageFile: the extension is one of SUPPORTED_IMAGE_EXTENSIONS
IsImageFile(path) == \E s \in Stems, e \in Exts : FileName(path) = MakeName(s, e)

VARIABLES
  images,             \* vault: the image files that exist
  notes,              \* vault: the notes that exist
  resolvedLinks,      \* metadataCache.resolvedLinks: note -> set of link targets
  orphanHandling,     \* settings.orphanHandling
  autoDetectOrphans,  \* settings.autoDetectOrphans
  orphanImages,       \* OrphanDetector.orphanImages
  scans,              \* per suspended scanOrphanImages: the orphans still to move, and
                      \* (history) whether another scan started in the meantime
  timers,             \* pending setTimeout callbacks of handleNoteDelete
  lastOp,             \* the operation that has just finished
  dirty,              \* history: a note was deleted and no scan has run since
  gallery,            \* GalleryContainer's images: listed path -> its isOrphan flag
  delActive,          \* a deleteOrphanImages call is in progress
  delPaths,           \* its argument imagePaths
  delIdx,             \* the position of its loop in imagePaths
  delCount,           \* its deletedCount
  delLog,             \* history: what became of each path it visited
  content,            \* vault: note -> the image link tokens of its text
  task,               \* the running updateImageReferences / batchUpdateReferences call
  wlog,               \* history: what that call did to each note it visited
  fileData,           \* vault: image path -> its content and stat.mtime
  clock,              \* the latest modification time of the vault
  cache,              \* HashService.cache, in the insertion order of its keys
  cacheFile,          \* .image-master/hash-cache.json
  hashSettings,       \* settings.enableDuplicateDetection and duplicateAction
  started,            \* onload has run to its end
  reading,            \* the calculateHash call suspended in readBinary, NoRead if none
  paste,              \* history: the last handleImagePaste and what it did
  rebuild             \* the running rebuildCache call

hostVars == <<images, notes, resolvedLinks>>
settingVars == <<orphanHandling, autoDetectOrphans>>
histVars == <<dirty>>
galleryVars == <<gallery, delActive, delPaths, delIdx, delCount, delLog>>
\* what the orphan-tracking actions leave alone
linkVars == <<content, task, wlog>>
hashVars == <<fileData, clock, cache, cacheFile, hashSettings, started, reading, paste,
              rebuild>>
otherVars == <<galleryVars, linkVars, hashVars>>
vars == <<images, notes, resolvedLinks, orphanHandling, autoDetectOrphans,
          orphanImages, scans, timers, lastOp, dirty,
          gallery, delActive, delPaths, delIdx, delCount, delLog,
          content, task, wlog,
          fileData, clock, cache, cacheFile, hashSettings, started, reading, paste, rebuild>>

NoPath == <<>>
Op(name, path, result) == [op |-> name, path |-> path, result |-> result]

(***************************************************************************)
(* Reference queries over metadataCache.resolvedLinks.                     *)
(***************************************************************************)
\* LinkUpdater.findNotesReferencingImage
FindNotesReferencingImage(imagePath) ==
  {n \in DOMAIN resolvedLinks : imagePath \in resolvedLinks[n]}

\* OrphanDetector.getAllReferencedImages
GetAllReferencedImages ==
  {p \in UNION {resolvedLinks[n] : n \in DOMAIN resolvedLinks} : IsImageFile(p)}

\* the value isOrphan(imagePath) returns: the cached set first, then the links
IsOrphanValue(imagePath) ==
  \/ imagePath \in orphanImages
  \/ \A n \in DOMAIN resolvedLinks : imagePath \notin resolvedLinks[n]

\* the orphan list scanOrphanImages builds, in the vault's listing order
ScanOrphans ==
  SelectSeq(SeqOfSet({f \in images : IsImageFile(f)}),
            LAMBDA p : p \notin GetAllReferencedImages)

\* the sets of at most MaxEmbeds existing images a note may embed
EmbedSets == {r \in SUBSET images : Cardinality(r) <= MaxEmbeds}

(***************************************************************************)
(* Initial state: the plugin has been constructed over an existing vault.  *)
(***************************************************************************)
\* the gallery is closed and no deleteOrphanImages call has been made
GalleryInit ==
  /\ gallery = << >>
  /\ delActive = FALSE
  /\ delPaths = <<>>
  /\ delIdx = 1
  /\ delCount = 0
  /\ delLog = <<>>

OrphanInit ==
  /\ images \in SUBSET UserImagePaths
  /\ notes \in SUBSET Notes
  /\ resolvedLinks \in [notes -> EmbedSets]
  /\ orphanHandling \in {"markOnly", "moveToFolder"}
  /\ autoDetectOrphans \in BOOLEAN
  /\ orphanImages = {}
  /\ scans = <<>>
  /\ timers = 0
  /\ lastOp = Op("other", NoPath, FALSE)
  /\ dirty = FALSE

\* no link update has been started; note texts are not looked at
IdleTask == [status |-> "idle", calls |-> 0, batch |-> FALSE, updates |-> <<>>, idx |-> 1,
             notesToUpdate |-> <<>>, pos |-> 1, updatedCount |-> 0, totalUpdated |-> 0]

LinkIdleInit ==
  /\ content = << >>
  /\ task = IdleTask
  /\ wlog = <<>>

\* no calculateHash call is suspended
NoRead == [path |-> NoPath, data |-> 0, mtime |-> 0]

\* no paste and no rebuild has happened
NoPaste == [data |-> 0, called |-> FALSE, result |-> NoPath, saved |-> NoPath,
            linked |-> NoPath, prior |-> {}, equal |-> {}]
NoRebuild == [status |-> "idle", todo |-> <<>>, quiet |-> TRUE, stale |-> FALSE, runs |-> 0]

\* the hash cache is not looked at; the plugin has been loaded
HashIdleInit ==
  /\ fileData = << >>
  /\ clock = 0
  /\ cache = <<>>
  /\ cacheFile = [state |-> "absent", entries |-> <<>>]
  /\ hashSettings = [enableDuplicateDetection |-> TRUE, duplicateAction |-> "reuse"]
  /\ started = TRUE
  /\ reading = NoRead
  /\ paste = NoPaste
  /\ rebuild = NoRebuild

Init == OrphanInit /\ GalleryInit /\ LinkIdleInit /\ HashIdleInit

(***************************************************************************)
(* Host events and the handlers main.ts registers for them.  The host      *)
(* keeps resolvedLinks in step with the vault: a deleted image leaves      *)
(* every note's links, a renamed image is followed by them.                *)
(***************************************************************************)
\* vault 'create' of an image; handleImageCreate leaves the orphan set alone
ImageCreate(p) ==
  /\ p \in UserImagePaths \ images
  /\ images' = images \cup {p}
  /\ lastOp' = Op("handler", NoPath, FALSE)
  /\ UNCHANGED <<notes, resolvedLinks, settingVars, orphanImages, scans, timers,
                 histVars, otherVars>>

\* vault 'delete' of an image from outside the plugin; handleImageDelete
ImageDelete(p) ==
  /\ p \in images
  /\ images' = images \ {p}
  /\ resolvedLinks' = [n \in notes |-> resolvedLinks[n] \ {p}]
  /\ lastOp' = Op("handler", NoPath, FALSE)
  /\ UNCHANGED <<notes, settingVars, orphanImages, scans, timers, histVars, otherVars>>

\* resolvedLinks once the links to oldPath follow the file to newPath
RenameInLinks(oldPath, newPath) ==
  [n \in notes |-> IF oldPath \in resolvedLinks[n]
                   THEN (resolvedLinks[n] \ {oldPath}) \cup {newPath}
                   ELSE resolvedLinks[n]]

\* vault 'rename' of an image by the user; handleImageRename
ImageRename(p, q) ==
  /\ p \in images
  /\ q \in UserImagePaths \ images
  /\ images' = (images \ {p}) \cup {q}
  /\ resolvedLinks' = RenameInLinks(p, q)
  /\ lastOp' = Op("handler", NoPath, FALSE)
  /\ UNCHANGED <<notes, settingVars, orphanImages, scans, timers, histVars, otherVars>>

\* vault 'create' of a note: the create listener ignores files that are no image
NoteCreate(n, refs) ==
  /\ n \in Notes \ notes
  /\ refs \in EmbedSets
  /\ notes' = notes \cup {n}
  /\ resolvedLinks' = [m \in notes \cup {n} |-> IF m = n THEN refs ELSE resolvedLinks[m]]
  /\ lastOp' = Op("handler", NoPath, FALSE)
  /\ UNCHANGED <<images, settingVars, orphanImages, scans, timers, histVars, otherVars>>

\* an edit of a note: main.ts registers no listener for 'modify'
NoteModify(n, refs) ==
  /\ n \in notes
  /\ refs \in EmbedSets
  /\ refs # resolvedLinks[n]
  /\ resolvedLinks' = [resolvedLinks EXCEPT ![n] = refs]
  /\ lastOp' = Op("other", NoPath, FALSE)
  /\ UNCHANGED <<images, notes, settingVars, orphanImages, scans, timers, histVars, otherVars>>

\* handleNoteDelete without its setTimeout
HandleNoteDelete_NoTimer == timers' = timers

\* handleNoteDelete: schedules a scan only when autoDetectOrphans is set
HandleNoteDelete ==
  /\ autoDetectOrphans => timers < MaxTimers
  /\ timers' = IF autoDetectOrphans THEN timers + 1 ELSE timers

\* vault 'delete' of a note
NoteDelete(n) ==
  /\ n \in notes
  /\ notes' = notes \ {n}
  /\ resolvedLinks' = [m \in notes \ {n} |-> resolvedLinks[m]]
  /\ HandleNoteDelete
  /\ dirty' = TRUE
  /\ lastOp' = Op("handler", NoPath, FALSE)
  /\ UNCHANGED <<images, settingVars, orphanImages, scans, otherVars>>

(***************************************************************************)
(* OrphanDetector.                                                         *)
(***************************************************************************)
\* the set scanOrphanImages leaves in orphanImages (lines 26-34)
ScannedSet_Merge(old, orphans) == old \cup Range(orphans)

ScannedSet(old, orphans) == Range(orphans)

\* scanOrphanImages up to its first await: the set is rebuilt, and with
\* orphanHandling 'moveToFolder' the call suspends in moveOrphansToFolder
ScanOrphanImagesUpTo(fromTimer, maxScans) ==
  /\ fromTimer => timers > 0
  /\ LET orphans == ScanOrphans
         moving  == orphanHandling = "moveToFolder" /\ orphans # <<>>
         earlier == [i \in DOMAIN scans |-> [scans[i] EXCEPT !.overlapped = TRUE]]
         \* a path the scan takes out of the orphan set, NoPath when there is none
         dropped == IF orphanImages \subseteq Range(orphans) THEN NoPath
                    ELSE CHOOSE p \in orphanImages \ Range(orphans) : TRUE
     IN  /\ moving => Len(scans) < maxScans
         /\ orphanImages' = ScannedSet(orphanImages, orphans)
         /\ scans' = IF moving
                      THEN Append(earlier, [todo |-> orphans, overlapped |-> scans # <<>>])
                      ELSE earlier
         /\ lastOp' = IF moving THEN Op("scanSuspend", NoPath, FALSE)
                                ELSE Op("scanReturn", dropped, fromTimer)
  /\ timers' = IF fromTimer THEN timers - 1 ELSE timers
  /\ dirty' = FALSE
  /\ UNCHANGED <<hostVars, settingVars, otherVars>>

ScanOrphanImages(fromTimer) == ScanOrphanImagesUpTo(fromTimer, MaxScans)

\* the 'scan-orphan-images' command
ScanCommand == ScanOrphanImages(FALSE)

\* the callback handleNoteDelete gave to setTimeout
TimerFire == ScanOrphanImages(TRUE)

\* moveOrphansToFolder's name-conflict loop: <name>_<counter>.<ext> with the
\* first counter whose path does not exist
RECURSIVE ConflictFree(_, _)
ConflictFree(fileName, counter) ==
  LET candidate == <<OrphanFolder,
                     MakeName(NameWithoutExt(fileName) \o "_" \o ToString(counter),
                              NameExt(fileName))>>
  IN  IF candidate \notin images THEN candidate
      ELSE IF counter >= MaxCounter THEN NoPath
      ELSE ConflictFree(fileName, counter + 1)

\* the path moveOrphansToFolder renames imagePath to
FinalPath(imagePath) ==
  LET newPath == <<OrphanFolder, FileName(imagePath)>>
  IN  IF newPath \notin images THEN newPath
      ELSE ConflictFree(FileName(imagePath), 1)

RemoveAt(s, i) == SubSeq(s, 1, i - 1) \o SubSeq(s, i + 1, Len(s))

\* what an iteration of moveOrphansToFolder's loop can meet: the rename is
\* done, vault.rename rejects (caught, lines 126-131), or adapter.exists
\* rejects (line 119, outside the try)
MoveOutcomes == {"moved", "renameFails", "existsFails"}

\* one iteration of moveOrphansToFolder's loop in suspended scan i.  The scan
\* returns after its last iteration; a rejection outside the try ends
\* moveOrphansToFolder and the scan that awaits it.
MoveStep(i, outcome) ==
  /\ i \in DOMAIN scans
  /\ LET p      == Head(scans[i].todo)
         final  == FinalPath(p)
         thrown == p \in images /\ outcome = "existsFails"
         moved  == p \in images /\ outcome = "moved" /\ final \in ImagePaths
         last   == Len(scans[i].todo) = 1
     IN  /\ IF moved
            THEN /\ images' = (images \ {p}) \cup {final}
                 /\ resolvedLinks' = RenameInLinks(p, final)
            ELSE UNCHANGED <<images, resolvedLinks>>
         /\ scans' = IF last \/ thrown THEN RemoveAt(scans, i)
                                       ELSE [scans EXCEPT ![i].todo = Tail(@)]
         /\ lastOp' = IF thrown THEN Op("scanThrow", NoPath, FALSE)
                      ELSE IF last THEN Op("scanReturn", NoPath, FALSE)
                      ELSE Op("other", NoPath, FALSE)
  /\ UNCHANGED <<notes, settingVars, orphanImages, timers, histVars, otherVars>>

\* isOrphan(imagePath): returns IsOrphanValue and caches a computed orphan
IsOrphan(imagePath) ==
  /\ imagePath \in images
  /\ lastOp' = Op("isOrphan", imagePath, IsOrphanValue(imagePath))
  /\ orphanImages' = IF IsOrphanValue(imagePath) THEN orphanImages \cup {imagePath}
                                                  ELSE orphanImages
  /\ UNCHANGED <<hostVars, settingVars, scans, timers, histVars, otherVars>>

\* getAllImageInfos: every image without referencing notes joins the set
GetAllImageInfos ==
  /\ orphanImages' = orphanImages \cup
                       {p \in images : IsImageFile(p) /\ FindNotesReferencingImage(p) = {}}
  /\ lastOp' = Op("other", NoPath, FALSE)
  /\ UNCHANGED <<hostVars, settingVars, scans, timers, histVars, otherVars>>

Next ==
  \/ \E p \in ImagePaths : ImageCreate(p)
  \/ \E p \in ImagePaths : ImageDelete(p)
  \/ \E p, q \in ImagePaths : ImageRename(p, q)
  \/ \E n \in Notes, refs \in EmbedSets : NoteCreate(n, refs)
  \/ \E n \in Notes, refs \in EmbedSets : NoteModify(n, refs)
  \/ \E n \in Notes : NoteDelete(n)
  \/ ScanCommand
  \/ TimerFire
  \/ \E i \in 1..MaxScans, outcome \in MoveOutcomes : MoveStep(i, outcome)
  \/ \E p \in ImagePaths : IsOrphan(p)
  \/ GetAllImageInfos

Spec == Init /\ [][Next]_vars

\* the timer fires and an awaited rename completes
FairSpec == Spec /\ WF_vars(TimerFire) /\ WF_vars(\E i \in 1..MaxScans, outcome \in MoveOutcomes : MoveStep(i, outcome))

(***************************************************************************)
(* Orphan tracking: the claims.                                            *)
(***************************************************************************)
\* the images of the vault that no note references
Unreferenced == {p \in images : FindNotesReferencingImage(p) = {}}

\* C1: immediately after a scanOrphanImages call returns, isOrphan(p) is true
\* exactly when findNotesReferencingImage(p) is empty, for every image p of
\* the vault.
C1_ScanOrphanConsistency ==
  lastOp.op = "scanReturn" =>
    \A p \in images : IsOrphanValue(p) <=> (FindNotesReferencingImage(p) = {})

\* C2: once the handler of an event that can change reference counts has
\* finished, a path is in the orphan set iff it is an image with no
\* referencing note.
C2_OrphanSetReconciled ==
  lastOp.op = "handler" => orphanImages = Unreferenced

\* C3: isOrphan(p) does not return true for an image that a note currently
\* references.
C3_NoFalseOrphanFromCache ==
  (lastOp.op = "isOrphan" /\ FindNotesReferencingImage(lastOp.path) # {}) =>
    lastOp.result = FALSE

GalleryVaultInit ==
  /\ images \in SUBSET ImagePaths
  /\ notes \in SUBSET Notes
  /\ resolvedLinks \in [notes -> EmbedSets]
  /\ orphanHandling = "markOnly"
  /\ autoDetectOrphans = TRUE
  /\ orphanImages = {}
  /\ scans = <<>>
  /\ timers = 0
  /\ lastOp = Op("other", NoPath, FALSE)
  /\ dirty = FALSE

GalleryInit0 == GalleryVaultInit /\ GalleryInit /\ LinkIdleInit /\ HashIdleInit

\* loadImages: the snapshot getAllImageInfos returns becomes the images state
LoadImages ==
  /\ ~delActive
  /\ gallery' = [p \in {f \in images : IsImageFile(f)} |->
                   FindNotesReferencingImage(p) = {}]
  /\ orphanImages' = orphanImages \cup
                       {p \in images : IsImageFile(p) /\ FindNotesReferencingImage(p) = {}}
  /\ lastOp' = Op("other", NoPath, FALSE)
  /\ UNCHANGED <<hostVars, settingVars, scans, timers, histVars,
                 delActive, delPaths, delIdx, delCount, delLog, linkVars, hashVars>>

\* the call deleteOrphanImages(imagePaths) starts
StartDelete(imagePaths) ==
  /\ delActive' = TRUE
  /\ delPaths' = imagePaths
  /\ delIdx' = 1
  /\ delCount' = 0
  /\ delLog' = <<>>

\* handleBulkDelete: the selected images whose listed isOrphan flag is set
HandleBulkDelete(selectedPaths) ==
  /\ ~delActive
  /\ selectedPaths \subseteq DOMAIN gallery
  /\ LET orphanPaths == SelectSeq(SeqOfSet(selectedPaths), LAMBDA p : gallery[p])
     IN  /\ Len(orphanPaths) # 0
         /\ StartDelete(orphanPaths)
  /\ lastOp' = Op("other", NoPath, FALSE)
  /\ UNCHANGED <<hostVars, settingVars, orphanImages, scans, timers, histVars, gallery,
                 linkVars, hashVars>>

\* handleSingleDelete: InfoPanel offers Delete when the listed flag is set
HandleSingleDelete(imagePath) ==
  /\ ~delActive
  /\ imagePath \in DOMAIN gallery
  /\ gallery[imagePath]
  /\ StartDelete(<<imagePath>>)
  /\ lastOp' = Op("other", NoPath, FALSE)
  /\ UNCHANGED <<hostVars, settingVars, orphanImages, scans, timers, histVars, gallery,
                 linkVars, hashVars>>

\* deletedCount after one iteration of deleteOrphanImages' loop
NextCount_Always(count, exists, ok) == count + 1

NextCount(count, exists, ok) == IF exists /\ ok THEN count + 1 ELSE count

\* the images state once deleteOrphanImages(orphanPaths) has returned deleted
GalleryAfterDelete(orphanPaths, deleted) ==
  IF deleted > 0
  THEN [p \in DOMAIN gallery \ Range(orphanPaths) |-> gallery[p]]
  ELSE gallery

\* one iteration of deleteOrphanImages' loop; ok is the outcome of
\* vault.delete.  After the last iteration the call returns delCount and the
\* handler that awaited it updates the images state.
DeleteStep(ok) ==
  /\ delActive
  /\ LET p      == delPaths[delIdx]
         exists == p \in images
         last   == delIdx = Len(delPaths)
     IN  /\ IF exists /\ ok
            THEN /\ images' = images \ {p}
                 /\ resolvedLinks' = [n \in notes |-> resolvedLinks[n] \ {p}]
                 /\ orphanImages' = orphanImages \ {p}
            ELSE UNCHANGED <<images, resolvedLinks, orphanImages>>
         /\ delCount' = NextCount(delCount, exists, ok)
         /\ delLog' = Append(delLog, [path |-> p, existed |-> exists, ok |-> ok,
                                      referenced |-> FindNotesReferencingImage(p) # {}])
         /\ delIdx' = delIdx + 1
         /\ delActive' = ~last
         /\ gallery' = IF last THEN GalleryAfterDelete(delPaths, delCount') ELSE gallery
         /\ lastOp' = IF last THEN Op("deleteReturn", NoPath, FALSE)
                              ELSE Op("other", NoPath, FALSE)
  /\ UNCHANGED <<notes, settingVars, scans, timers, histVars, delPaths, linkVars, hashVars>>

GalleryNext ==
  \/ \E p \in ImagePaths : ImageCreate(p)
  \/ \E p \in ImagePaths : ImageDelete(p)
  \/ \E n \in Notes, refs \in EmbedSets : NoteModify(n, refs)
  \/ LoadImages
  \/ \E sel \in SUBSET ImagePaths : HandleBulkDelete(sel)
  \/ \E p \in ImagePaths : HandleSingleDelete(p)
  \/ \E ok \in BOOLEAN : DeleteStep(ok)

GallerySpec == GalleryInit0 /\ [][GalleryNext]_vars

\* the entries of delLog whose file was deleted
DeletedEntries == {i \in DOMAIN delLog : delLog[i].existed /\ delLog[i].ok}

\* C5: the gallery's bulk or single delete never deletes an image that a
\* note references at the moment of the deletion.
C5_ReferencedNeverDeleted ==
  \A i \in DeletedEntries : ~delLog[i].referenced

\* C6: when deleteOrphanImages returns, every listed path has been visited in
\* order, and the returned count is the number of listed paths that existed
\* and whose delete succeeded, whether or not a note referenced them; a path
\* whose delete succeeds leaves the vault and the orphan set in that step.
C6_DeleteCount ==
  /\ [](lastOp.op = "deleteReturn" =>
          /\ delLog = [i \in DOMAIN delPaths |-> delLog[i]]
          /\ \A i \in DOMAIN delPaths : delLog[i].path = delPaths[i]
          /\ delCount = Cardinality(DeletedEntries))
  /\ [][\A ok \in BOOLEAN :
          (DeleteStep(ok) /\ ok /\ delPaths[delIdx] \in images) =>
            /\ delPaths[delIdx] \notin images'
            /\ delPaths[delIdx] \notin orphanImages'
            /\ delCount' = delCount + 1]_vars

\* three paths were listed, one of them was missing, and the call returned 2
C6_Witness ==
  /\ lastOp.op = "deleteReturn"
  /\ Len(delPaths) = 3
  /\ \E i \in DOMAIN delLog : ~delLog[i].existed
  /\ delCount = 2

(***************************************************************************)
(* LinkUpdater: rewriting the image links of notes after a rename.         *)
(*                                                                         *)
(* A note's text is the sequence of its image link tokens.  A token is     *)
(*   kind "wiki"  ![[segs]]         full path or bare file name            *)
(*   kind "md"    ![](segs)         vault path                             *)
(*   kind "md/"   ![](/segs)        vault path with a leading slash        *)
(*   kind "rel"   ![](./segs) when up = 0, ![](../ .. segs) with up "../"  *)
(* The alias and alt text, which every rule copies, are left out.          *)
(***************************************************************************)
MaxTokens == 1
MaxCalls == 1

LinkImagePaths == {<<"a", "b", "img", "x.png">>, <<"a", "b", "img", "y.png">>, <<"c", "x.png">>}

Token(kind, up, segs) == [kind |-> kind, up |-> up, segs |-> segs]

\* the folder of a file: path.substring(0, path.lastIndexOf('/'))
Folder(path) == SubSeq(path, 1, Len(path) - 1)

\* getRelativePath's while loop
RECURSIVE CommonLength(_, _, _)
CommonLength(fromParts, toParts, commonLength) ==
  IF /\ commonLength < Len(fromParts)
     /\ commonLength < Len(toParts)
     /\ fromParts[commonLength + 1] = toParts[commonLength + 1]
  THEN CommonLength(fromParts, toParts, commonLength + 1)
  ELSE commonLength

\* getRelativePath without the shared leading segments
GetRelativePath_NoCommon(fromFolder, toPath) == Token("rel", Len(fromFolder), toPath)

\* getRelativePath: upCount "../" (or "./" when there is none), then downPath
GetRelativePath(fromFolder, toPath) ==
  LET commonLength == CommonLength(fromFolder, toPath, 0)
  IN  Token("rel", Len(fromFolder) - commonLength,
            SubSeq(toPath, commonLength + 1, Len(toPath)))

\* toParts.slice(commonLength).join('/')
RECURSIVE JoinPath(_)
JoinPath(segs) ==
  IF Len(segs) = 0 THEN ""
  ELSE IF Len(segs) = 1 THEN segs[1]
  ELSE segs[1] \o "/" \o JoinPath(Tail(segs))

\* '../'.repeat(upCount)
RECURSIVE RepeatUp(_)
RepeatUp(upCount) == IF upCount = 0 THEN "" ELSE "../" \o RepeatUp(upCount - 1)

\* the string getRelativePath returns, for a "rel" token
RelativeString(t) ==
  IF t.up = 0 THEN "./" \o JoinPath(t.segs) ELSE RepeatUp(t.up) \o JoinPath(t.segs)

\* formatImageLink: the token each linkFormat writes for imagePath in a note
FormatImageLink(linkFormat, imagePath, notePath) ==
  CASE linkFormat = "wikilink"          -> Token("wiki", 0, <<FileName(imagePath)>>)
    [] linkFormat = "wikilink-path"     -> Token("wiki", 0, imagePath)
    [] linkFormat = "markdown-relative" -> GetRelativePath(Folder(notePath), imagePath)
    [] linkFormat = "markdown-absolute" -> Token("md/", 0, imagePath)

LinkFormats == {"wikilink", "wikilink-path", "markdown-relative", "markdown-absolute"}

\* the tokens a note can hold: what formatImageLink writes, and the vault
\* path without the leading slash
TokensOf(notePath) ==
  {FormatImageLink(f, p, notePath) : f \in LinkFormats, p \in LinkImagePaths}
    \cup {Token("md", 0, p) : p \in LinkImagePaths}

RECURSIVE SeqsUpTo(_, _)
SeqsUpTo(S, n) ==
  IF n = 0 THEN {<<>>}
  ELSE LET shorter == SeqsUpTo(S, n - 1)
       IN  shorter \cup {Append(q, x) : q \in shorter, x \in S}

\* the host's metadataCache.getFirstLinkpathDest(linkpath, sourcePath): a
\* path of several segments names that file; a bare name goes to a file of
\* that name, the one in the source's folder first, then the shortest path
GetFirstLinkpathDest(linkpath, sourcePath) ==
  IF Len(linkpath) > 1
  THEN IF linkpath \in images THEN linkpath ELSE NoPath
  ELSE LET named == {p \in images : FileName(p) = linkpath[1]}
           near  == {p \in named : Folder(p) = Folder(sourcePath)}
           short == {p \in named : \A q \in named : Len(p) <= Len(q)}
       IN  IF named = {} THEN NoPath
           ELSE IF near # {} THEN CHOOSE p \in near : TRUE
           ELSE CHOOSE p \in short : TRUE

\* the file the host resolves a token of note sourcePath to, NoPath if none
ResolveToken(t, sourcePath) ==
  CASE t.kind = "wiki" -> GetFirstLinkpathDest(t.segs, sourcePath)
    [] t.kind \in {"md", "md/"} -> IF t.segs \in images THEN t.segs ELSE NoPath
    [] t.kind = "rel" ->
         LET folder == Folder(sourcePath)
             target == SubSeq(folder, 1, Len(folder) - t.up) \o t.segs
         IN  IF t.up <= Len(folder) /\ target \in images THEN target ELSE NoPath

\* the images the tokens of text resolve to
ResolvedTargets(text, sourcePath) ==
  {ResolveToken(text[i], sourcePath) : i \in DOMAIN text} \ {NoPath}

\* the four replacement rules of updateLinksInNote, on one token
\* Pattern 1: full-path wikilink
FullPathWikilink(t, oldPath, newPath) ==
  IF t.kind = "wiki" /\ t.segs = oldPath THEN Token("wiki", 0, newPath) ELSE t

\* Pattern 2: name-only wikilink, if the name changed and the host resolves
\* the old name, from this note, to oldPath
NameOnlyWikilink(t, notePath, oldPath, newPath) ==
  LET oldName == FileName(oldPath)
      newName == FileName(newPath)
  IN  IF /\ oldName # newName
         /\ t.kind = "wiki"
         /\ t.segs = <<oldName>>
         /\ GetFirstLinkpathDest(<<oldName>>, notePath) = oldPath
      THEN Token("wiki", 0, <<newName>>)
      ELSE t

\* markdown Pattern 1: the vault path, with or without a leading slash
AbsoluteMarkdown(t, oldPath, newPath) ==
  IF t.kind \in {"md", "md/"} /\ t.segs = oldPath THEN Token("md/", 0, newPath) ELSE t

\* markdown Pattern 2: the relative path, recomputed from the note's folder
RelativeMarkdown(t, notePath, oldPath, newPath) ==
  IF t = GetRelativePath(Folder(notePath), oldPath)
  THEN GetRelativePath(Folder(notePath), newPath)
  ELSE t

\* the content updateLinksInNote computes from the content it read
UpdateLinks(text, notePath, oldPath, newPath) ==
  [i \in DOMAIN text |->
     RelativeMarkdown(
       AbsoluteMarkdown(
         NameOnlyWikilink(
           FullPathWikilink(text[i], oldPath, newPath),
           notePath, oldPath, newPath),
         oldPath, newPath),
       notePath, oldPath, newPath)]

\* "Only write if changed"
ShouldWrite_Always(newContent, originalContent) == TRUE

ShouldWrite(newContent, originalContent) == newContent # originalContent

\* the call's state when it reaches pair idx of updates: it runs through the
\* notes referencing that pair's oldPath, and a pair that no note references
\* returns 0 at once
RECURSIVE RunFrom(_, _, _, _, _)
RunFrom(updates, idx, totalUpdated, batch, calls) ==
  LET notesToUpdate == SeqOfSet(FindNotesReferencingImage(updates[idx].oldPath))
      reached == [status |-> "running", calls |-> calls, batch |-> batch, updates |-> updates, idx |-> idx,
                  notesToUpdate |-> notesToUpdate, pos |-> 1, updatedCount |-> 0,
                  totalUpdated |-> totalUpdated]
  IN  IF notesToUpdate # <<>> THEN reached
      ELSE IF idx = Len(updates) THEN [reached EXCEPT !.status = "returned"]
      ELSE RunFrom(updates, idx + 1, totalUpdated, batch, calls)

\* the marker of the step that leaves the call in state t
TaskOp(t) ==
  CASE t.status = "thrown" -> Op("updateThrow", NoPath, FALSE)
    [] t.status = "returned" /\ t.batch -> Op("batchReturn", NoPath, FALSE)
    [] t.status = "returned" /\ ~t.batch -> Op("updateReturn", NoPath, FALSE)
    [] OTHER -> Op("other", NoPath, FALSE)

\* what the link actions leave alone
linkFrame == <<settingVars, orphanImages, scans, timers, histVars, galleryVars, hashVars>>

\* vault 'rename' of an image: the file is at newPath when handleImageRename
\* calls updateImageReferences(oldPath, file.path); resolvedLinks still holds
\* the links as they were resolved before the rename
HandleImageRename(oldPath, newPath) ==
  /\ task.status # "running"
  /\ task.calls < MaxCalls
  /\ oldPath \in images
  /\ newPath \in LinkImagePaths \ images
  /\ images' = (images \ {oldPath}) \cup {newPath}
  /\ task' = RunFrom(<<[oldPath |-> oldPath, newPath |-> newPath]>>, 1, 0, FALSE,
                   task.calls + 1)
  /\ wlog' = <<>>
  /\ lastOp' = TaskOp(task')
  /\ UNCHANGED <<notes, resolvedLinks, content, linkFrame>>

\* a call of batchUpdateReferences(updates)
BatchUpdateReferences(updates) ==
  /\ task.status # "running"
  /\ task.calls < MaxCalls
  /\ \A i \in DOMAIN updates : updates[i].oldPath # updates[i].newPath
  /\ task' = RunFrom(updates, 1, 0, TRUE, task.calls + 1)
  /\ wlog' = <<>>
  /\ lastOp' = TaskOp(task')
  /\ UNCHANGED <<hostVars, content, linkFrame>>

\* totalUpdated += count, with the count of the last pair only
AddCount_LastPair(totalUpdated, count) == count

\* totalUpdated += count
AddCount(totalUpdated, count) == totalUpdated + count

\* one iteration of updateImageReferences' loop, that is one call of
\* updateLinksInNote; outcome tells whether vault.read or vault.modify rejects
UpdateStep(outcome) ==
  /\ task.status = "running"
  /\ LET notePath   == task.notesToUpdate[task.pos]
         u          == task.updates[task.idx]
         original   == content[notePath]
         newContent == UpdateLinks(original, notePath, u.oldPath, u.newPath)
         readFails  == outcome = "readFail"
         writes     == ~readFails /\ ShouldWrite(newContent, original)
         writeFails == writes /\ outcome = "writeFail"
         updated    == writes /\ ~writeFails
         count      == IF updated THEN task.updatedCount + 1 ELSE task.updatedCount
         total      == AddCount(task.totalUpdated, count)
     IN  /\ content' = IF updated THEN [content EXCEPT ![notePath] = newContent] ELSE content
         /\ wlog' = Append(wlog,
                       [idx |-> task.idx, note |-> notePath, before |-> original,
                        after |-> newContent,
                        result |-> IF readFails THEN "readFail"
                                   ELSE IF writeFails THEN "writeFail"
                                   ELSE IF updated THEN "written" ELSE "unchanged"])
         /\ task' = IF readFails \/ writeFails
                    THEN [task EXCEPT !.status = "thrown"]
                    ELSE IF task.pos < Len(task.notesToUpdate)
                    THEN [task EXCEPT !.pos = task.pos + 1, !.updatedCount = count]
                    ELSE IF task.idx = Len(task.updates)
                    THEN [task EXCEPT !.status = "returned", !.pos = task.pos + 1,
                                      !.updatedCount = count, !.totalUpdated = total]
                    ELSE LET next == RunFrom(task.updates, task.idx + 1, total, task.batch, task.calls)
                         IN  IF next.status = "running" THEN next
                             ELSE [next EXCEPT !.idx = task.idx,
                                               !.notesToUpdate = task.notesToUpdate,
                                               !.pos = task.pos + 1,
                                               !.updatedCount = count]
  /\ lastOp' = TaskOp(task')
  /\ UNCHANGED <<hostVars, linkFrame>>

\* the host re-resolves the links of every note (metadataCache 'resolved')
HostResolve ==
  /\ resolvedLinks # [n \in notes |-> ResolvedTargets(content[n], n)]
  /\ resolvedLinks' = [n \in notes |-> ResolvedTargets(content[n], n)]
  /\ lastOp' = Op("other", NoPath, FALSE)
  /\ UNCHANGED <<images, notes, linkVars, linkFrame>>

Updates == {<<[oldPath |-> a, newPath |-> b], [oldPath |-> c, newPath |-> d]>> :
              a \in LinkImagePaths, b \in LinkImagePaths,
              c \in LinkImagePaths, d \in LinkImagePaths}

Outcomes == {"ok", "readFail", "writeFail"}

LinkInit ==
  /\ images \in SUBSET LinkImagePaths
  /\ notes = Notes
  /\ content \in {f \in [Notes -> UNION {SeqsUpTo(TokensOf(n), MaxTokens) : n \in Notes}] :
                    \A n \in Notes : f[n] \in SeqsUpTo(TokensOf(n), MaxTokens)}
  /\ resolvedLinks = [n \in notes |-> ResolvedTargets(content[n], n)]
  /\ orphanHandling = "markOnly"
  /\ autoDetectOrphans = TRUE
  /\ orphanImages = {}
  /\ scans = <<>>
  /\ timers = 0
  /\ lastOp = Op("other", NoPath, FALSE)
  /\ dirty = FALSE
  /\ task = IdleTask
  /\ wlog = <<>>
  /\ GalleryInit
  /\ HashIdleInit

LinkNext ==
  \/ \E oldPath, newPath \in LinkImagePaths : HandleImageRename(oldPath, newPath)
  \/ \E updates \in Updates : BatchUpdateReferences(updates)
  \/ \E outcome \in Outcomes : UpdateStep(outcome)
  \/ HostResolve

LinkSpec == LinkInit /\ [][LinkNext]_vars

(***************************************************************************)
(* Link rewriting: the claims.                                             *)
(***************************************************************************)
\* the entries of wlog whose note was written
WrittenEntries == {i \in DOMAIN wlog : wlog[i].result = "written"}

\* C7: when updateImageReferences(oldPath, newPath) returns in the rename
\* handler, every note that referenced oldPath holds a link the host resolves
\* to newPath, and the returned number is the number of notes written.
C7_RenameUpdatesEveryReference ==
  lastOp.op = "updateReturn" =>
    /\ \A n \in Range(task.notesToUpdate) :
         task.updates[1].newPath \in ResolvedTargets(content[n], n)
    /\ task.updatedCount = Cardinality(WrittenEntries)

\* the entries of wlog whose read or write was rejected
FailedEntries == {i \in DOMAIN wlog : wlog[i].result \in {"readFail", "writeFail"}}

\* C8: updateLinksInNote calls vault.modify only when the content it computed
\* differs from the content it read; a note whose tokens all stay as they
\* were is not written and not counted in updatedCount.
C8_WritesOnlyWhenChanged ==
  /\ \A i \in DOMAIN wlog :
       /\ wlog[i].result \in {"written", "writeFail"} => wlog[i].after # wlog[i].before
       /\ wlog[i].result = "unchanged" => wlog[i].after = wlog[i].before
  /\ task.status # "idle" =>
       task.updatedCount =
         Cardinality({i \in WrittenEntries : wlog[i].idx = task.idx})

\* a call has returned after leaving one note as it was and writing another
C8_Witness ==
  /\ task.status = "returned"
  /\ \E i \in DOMAIN wlog : wlog[i].result = "unchanged"
  /\ \E i \in DOMAIN wlog : wlog[i].result = "written"

\* C9: updateImageReferences does not throw when the read or write of one
\* note fails: it visits every referencing note and returns the number of
\* notes it wrote.
C9_FailureCaughtPerNote ==
  ~task.batch =>
    /\ task.status # "thrown"
    /\ task.status = "returned" =>
         /\ Range(task.notesToUpdate) = {wlog[i].note : i \in DOMAIN wlog}
         /\ task.updatedCount = Cardinality(WrittenEntries)

\* C10: a batchUpdateReferences call whose first pair met a failure still
\* applies its second pair and returns the number of notes written.
C10_BatchSurvivesFailure ==
  (task.batch /\ \E i \in FailedEntries : wlog[i].idx = 1) =>
    /\ task.status \in {"running", "returned"}
    /\ task.status = "returned" => task.totalUpdated = Cardinality(WrittenEntries)

(***************************************************************************)
(* updateLinksInNote called on its own: successive rewrites of one note.   *)
(***************************************************************************)
MaxRewrites == 2

\* the image file oldPath is renamed to newPath in the vault
FileMoved(oldPath, newPath) ==
  /\ Len(wlog) < MaxRewrites
  /\ oldPath \in images
  /\ newPath \in LinkImagePaths \ images
  /\ images' = (images \ {oldPath}) \cup {newPath}
  /\ lastOp' = Op("other", NoPath, FALSE)
  /\ UNCHANGED <<notes, resolvedLinks, linkVars, linkFrame>>

\* updateLinksInNote(noteFile, oldPath, newPath) with a vault that answers
UpdateLinksInNote(notePath, oldPath, newPath) ==
  /\ Len(wlog) < MaxRewrites
  /\ notePath \in notes
  /\ oldPath # newPath
  /\ LET original   == content[notePath]
         newContent == UpdateLinks(original, notePath, oldPath, newPath)
         updated    == ShouldWrite(newContent, original)
     IN  /\ content' = IF updated THEN [content EXCEPT ![notePath] = newContent]
                                  ELSE content
         /\ wlog' = Append(wlog,
                       [idx |-> Len(wlog) + 1, note |-> notePath, before |-> original,
                        after |-> content'[notePath],
                        result |-> IF updated THEN "written" ELSE "unchanged",
                        oldPath |-> oldPath, newPath |-> newPath])
  /\ lastOp' = Op("other", NoPath, FALSE)
  /\ UNCHANGED <<hostVars, task, linkFrame>>

RewriteNext ==
  \/ \E oldPath, newPath \in LinkImagePaths : FileMoved(oldPath, newPath)
  \/ \E n \in Notes, oldPath, newPath \in LinkImagePaths :
       UpdateLinksInNote(n, oldPath, newPath)

RewriteSpec == LinkInit /\ [][RewriteNext]_vars

\* C11: rewriting a note's links for image A to B and then at once for B to
\* A leaves the note's content as it was before the first rewrite.
C11_RoundTripRestores ==
  \A i \in DOMAIN wlog : \A j \in DOMAIN wlog :
    (/\ j = i + 1
     /\ wlog[j].note = wlog[i].note
     /\ wlog[j].oldPath = wlog[i].newPath
     /\ wlog[j].newPath = wlog[i].oldPath)
    => wlog[j].after = wlog[i].before

(***************************************************************************)
(* Relative link forms.                                                    *)
(***************************************************************************)
\* the folders a note can be in, and the image paths links are formed for
RelFolders == {<<>>, <<"a">>, <<"a", "b">>, <<"a", "b", "img">>, <<"c">>}
RelPaths == LinkImagePaths \cup ImagePaths

\* the number of leading segments folder F shares with path P
SharedLeading(F, P) ==
  CHOOSE k \in 0..Len(F) :
    /\ k <= Len(P)
    /\ \A i \in 1..k : F[i] = P[i]
    /\ (k = Len(F) \/ k = Len(P) \/ F[k + 1] # P[k + 1])

\* the relative form as the claim words it
ExpectedRelative(F, P) ==
  LET k    == SharedLeading(F, P)
      rest == JoinPath(SubSeq(P, k + 1, Len(P)))
  IN  IF Len(F) - k = 0 THEN "./" \o rest
      ELSE RepeatUp(Len(F) - k) \o rest

\* C12: for every note folder F and image path P the relative form is one
\* "../" per segment of F after the segments it shares with P, then the rest
\* of P, or "./" and the rest of P when there is no such segment (folder
\* a/b, image c/x.png: ../../c/x.png); and when updateLinksInNote visits a
\* note for a move, a link in the relative form of the old path becomes the
\* relative form of the new path computed from that note's folder.
C12_RelativeForm ==
  /\ \A F \in RelFolders, P \in RelPaths :
       RelativeString(GetRelativePath(F, P)) = ExpectedRelative(F, P)
  /\ RelativeString(GetRelativePath(<<"a", "b">>, <<"c", "x.png">>)) = "../../c/x.png"
  /\ \A i \in DOMAIN wlog :
       wlog[i].result \in {"written", "unchanged"} =>
         \A k \in DOMAIN wlog[i].before :
           LET u      == task.updates[wlog[i].idx]
               folder == Folder(wlog[i].note)
           IN  wlog[i].before[k] = GetRelativePath(folder, u.oldPath) =>
                 wlog[i].after[k] = GetRelativePath(folder, u.newPath)

\* note a/b/note.md held ./img/x.png, the image moved to c/x.png, and the
\* note was rewritten to ../../c/x.png
C12_Witness ==
  \E i \in DOMAIN wlog :
    /\ wlog[i].note = <<"a", "b", "note.md">>
    /\ wlog[i].result = "written"
    /\ wlog[i].before = <<Token("rel", 0, <<"img", "x.png">>)>>
    /\ RelativeString(wlog[i].after[1]) = "../../c/x.png"
    /\ content[wlog[i].note] = wlog[i].after

(***************************************************************************)
(* HashService: the hash cache and duplicate detection on paste.           *)
(*                                                                         *)
(* An image's content is a number of Data, its digest the string           *)
(* computeHash gives for it; different contents have different digests.    *)
(* The cache is the sequence of its entries in the order Object.entries    *)
(* lists them, which is the order the keys were inserted in.               *)
(***************************************************************************)
MaxData == 2
MaxClock == 3
MaxPasteCounter == 1
MaxPersisted == 1
MaxRebuilds == 1

Data == 1..MaxData

\* computeHash: the first 16 hex characters of the SHA-256 of the content
ComputeHash(data) == "sha" \o ToString(data)

\* the folder determineSavePath gives for a note in folder a ('folderBased')
PasteFolder == <<"a", "a_img">>
\* the file name generateFilename gives for the pasted blob
PasteStem == "image"
PasteExt == "png"

\* resolveConflict: <name>_<counter>.<ext> with the first counter whose path
\* does not exist
RECURSIVE ResolveConflict(_)
ResolveConflict(counter) ==
  LET finalPath == PasteFolder \o
                     <<IF counter = 0 THEN MakeName(PasteStem, PasteExt)
                       ELSE MakeName(PasteStem \o "_" \o ToString(counter), PasteExt)>>
  IN  IF finalPath \notin DOMAIN fileData THEN finalPath
      ELSE IF counter >= MaxPasteCounter THEN NoPath
      ELSE ResolveConflict(counter + 1)

PastePaths == {PasteFolder \o <<MakeName(PasteStem, PasteExt)>>} \cup
              {PasteFolder \o <<MakeName(PasteStem \o "_" \o ToString(k), PasteExt)>> :
                 k \in 1..MaxPasteCounter}

\* the image paths of the vault the hash cache is about
HashPaths == PastePaths

File(data, mtime, pasted) == [data |-> data, mtime |-> mtime, pasted |-> pasted]
Entry(path, hash, mtime) == [path |-> path, hash |-> hash, mtime |-> mtime]

\* this.cache[path], NoEntry when there is none
NoEntry == Entry(NoPath, "", 0)
CacheHas(c, path) == \E i \in DOMAIN c : c[i].path = path
CacheGet(c, path) ==
  IF CacheHas(c, path) THEN c[CHOOSE i \in DOMAIN c : c[i].path = path] ELSE NoEntry

\* this.cache[path] = {hash, mtime}: an existing key keeps its place
CachePut(c, path, hash, mtime) ==
  IF CacheHas(c, path)
  THEN [i \in DOMAIN c |-> IF c[i].path = path THEN Entry(path, hash, mtime) ELSE c[i]]
  ELSE Append(c, Entry(path, hash, mtime))

\* delete this.cache[path]
CacheDelete(c, path) == SelectSeq(c, LAMBDA e : e.path # path)

\* calculateHash(file): the cached digest when the entry's mtime is the
\* file's, else the digest of the content, which is cached
CalculateHash(c, path, file) ==
  LET cached == CacheGet(c, path)
  IN  IF CacheHas(c, path) /\ cached.mtime = file.mtime
      THEN [hash |-> cached.hash, cache |-> c]
      ELSE [hash |-> ComputeHash(file.data),
            cache |-> CachePut(c, path, ComputeHash(file.data), file.mtime)]

\* findDuplicate's first loop over the entries the cache had at its start:
\* the first entry with the new digest whose file exists is the answer, an
\* entry with the new digest whose file is gone is dropped
RECURSIVE SearchCache(_, _, _)
SearchCache(entries, c, newHash) ==
  IF entries = <<>> THEN [result |-> NoPath, cache |-> c]
  ELSE LET entry == Head(entries)
       IN  IF entry.hash # newHash THEN SearchCache(Tail(entries), c, newHash)
           ELSE IF entry.path \in DOMAIN fileData
           THEN [result |-> entry.path, cache |-> c]
           ELSE SearchCache(Tail(entries), CacheDelete(c, entry.path), newHash)

\* findDuplicate's second loop over the images of the vault: an image without
\* a cache entry is hashed, and is the answer when its digest is the new one
RECURSIVE SearchVault(_, _, _)
SearchVault(imageSeq, c, newHash) ==
  IF imageSeq = <<>> THEN [result |-> NoPath, cache |-> c]
  ELSE LET image == Head(imageSeq)
       IN  IF CacheHas(c, image) THEN SearchVault(Tail(imageSeq), c, newHash)
           ELSE LET h == CalculateHash(c, image, fileData[image])
                IN  IF h.hash = newHash THEN [result |-> image, cache |-> h.cache]
                    ELSE SearchVault(Tail(imageSeq), h.cache, newHash)

\* findDuplicate(data) on cache c: the path found, NoPath for null, and the
\* cache it leaves
FindDuplicate(c, data) ==
  LET newHash  == ComputeHash(data)
      inCache  == SearchCache(c, c, newHash)
  IN  IF inCache.result # NoPath THEN inCache
      ELSE SearchVault(SeqOfSet(DOMAIN fileData), inCache.cache, newHash)

\* what the hash actions leave alone
hashFrame == <<notes, resolvedLinks, settingVars, orphanImages, scans, timers, histVars,
               galleryVars, linkVars>>

\* a change of the vault while rebuildCache runs
Disturb(r) == IF r.status = "running" THEN [r EXCEPT !.quiet = FALSE] ELSE r

\* loadCache's effect on the cache, and whether it throws
LoadCacheResult_NoCatch(file, c) ==
  IF file.state = "valid" THEN [cache |-> file.entries, threw |-> FALSE]
  ELSE IF file.state = "absent" THEN [cache |-> c, threw |-> FALSE]
  ELSE [cache |-> c, threw |-> TRUE]

LoadCacheResult(file, c) ==
  IF file.state = "valid" THEN [cache |-> file.entries, threw |-> FALSE]
  ELSE IF file.state = "absent" THEN [cache |-> c, threw |-> FALSE]
  ELSE [cache |-> <<>>, threw |-> FALSE]

\* onload up to its end: loadCache is its last await
LoadCache ==
  /\ ~started
  /\ cache' = LoadCacheResult(cacheFile, cache).cache
  /\ started' = ~LoadCacheResult(cacheFile, cache).threw
  /\ lastOp' = Op("loaded", NoPath, FALSE)
  /\ paste' = NoPaste
  /\ UNCHANGED <<images, fileData, clock, cacheFile, hashSettings, reading, rebuild, hashFrame>>

\* handleImageCreate for the new file at path
HandleImageCreate(c, path, file) ==
  IF hashSettings.enableDuplicateDetection THEN CalculateHash(c, path, file).cache ELSE c

\* an image file is created from outside the plugin
ImageCreated(path, data) ==
  /\ started
  /\ clock < MaxClock
  /\ path \in HashPaths \ DOMAIN fileData
  /\ fileData' = [q \in DOMAIN fileData \cup {path} |->
                    IF q = path THEN File(data, clock + 1, FALSE) ELSE fileData[q]]
  /\ images' = DOMAIN fileData'
  /\ clock' = clock + 1
  /\ cache' = HandleImageCreate(cache, path, File(data, clock + 1, FALSE))
  /\ rebuild' = Disturb(rebuild)
  /\ lastOp' = Op("other", NoPath, FALSE)
  /\ paste' = NoPaste
  /\ UNCHANGED <<cacheFile, hashSettings, started, reading, hashFrame>>

\* an image file is written from outside the plugin: no 'modify' listener
ImageModified(path, data) ==
  /\ started
  /\ clock < MaxClock
  /\ path \in DOMAIN fileData
  /\ fileData' = [fileData EXCEPT ![path] = File(data, clock + 1, FALSE)]
  /\ clock' = clock + 1
  /\ rebuild' = Disturb(rebuild)
  /\ lastOp' = Op("other", NoPath, FALSE)
  /\ paste' = NoPaste
  /\ UNCHANGED <<images, cache, cacheFile, hashSettings, started, reading, hashFrame>>

\* an image file is deleted: handleImageDelete calls removeFromCache
ImageRemoved(path) ==
  /\ started
  /\ path \in DOMAIN fileData
  /\ fileData' = [q \in DOMAIN fileData \ {path} |-> fileData[q]]
  /\ images' = DOMAIN fileData'
  /\ cache' = CacheDelete(cache, path)
  /\ rebuild' = Disturb(rebuild)
  /\ lastOp' = Op("other", NoPath, FALSE)
  /\ paste' = NoPaste
  /\ UNCHANGED <<clock, cacheFile, hashSettings, started, reading, hashFrame>>

\* updateCachePath(oldPath, newPath)
UpdateCachePath(c, oldPath, newPath) ==
  IF CacheHas(c, oldPath)
  THEN CacheDelete(CachePut(c, newPath, CacheGet(c, oldPath).hash, CacheGet(c, oldPath).mtime),
                   oldPath)
  ELSE c

\* an image file is renamed: handleImageRename awaits updateImageReferences
\* and, unless that call rejected (rewritten is false), ends with
\* updateCachePath; the TFile objects rebuildCache and a suspended
\* calculateHash hold follow the file
ImageMovedWith(oldPath, newPath, rewritten) ==
  /\ started
  /\ oldPath \in DOMAIN fileData
  /\ newPath \in HashPaths \ DOMAIN fileData
  /\ fileData' = [q \in (DOMAIN fileData \ {oldPath}) \cup {newPath} |->
                    IF q = newPath THEN fileData[oldPath] ELSE fileData[q]]
  /\ images' = DOMAIN fileData'
  /\ cache' = IF rewritten THEN UpdateCachePath(cache, oldPath, newPath) ELSE cache
  /\ reading' = IF reading.path = oldPath THEN [reading EXCEPT !.path = newPath] ELSE reading
  /\ rebuild' = [Disturb(rebuild) EXCEPT
                   !.todo = [i \in DOMAIN rebuild.todo |->
                               IF rebuild.todo[i] = oldPath THEN newPath ELSE rebuild.todo[i]]]
  /\ lastOp' = Op("other", NoPath, FALSE)
  /\ paste' = NoPaste
  /\ UNCHANGED <<clock, cacheFile, hashSettings, started, hashFrame>>

\* a rename whose link rewriting met no failure
ImageMoved(oldPath, newPath) == ImageMovedWith(oldPath, newPath, TRUE)

\* the files holding the content data
SameContent(data) == {p \in DOMAIN fileData : fileData[p].data = data}

\* the files a paste saved with the content data, not written since
PastedUnmodified(data) == {p \in SameContent(data) : fileData[p].pasted}

\* handleImagePaste(blob, activeFile) with a note of folder a active: the
\* duplicate check, then either the link to the existing image or the save,
\* the 'create' event of the saved file and the link to it
HandleImagePaste(data) ==
  LET detect   == hashSettings.enableDuplicateDetection
      found    == IF detect THEN FindDuplicate(cache, data)
                  ELSE [result |-> NoPath, cache |-> cache]
      reuse    == found.result # NoPath /\ hashSettings.duplicateAction = "reuse"
      savePath == ResolveConflict(0)
      file     == File(data, clock + 1, TRUE)
  IN  /\ started
      /\ IF reuse
         THEN /\ cache' = found.cache
              /\ paste' = [data |-> data, called |-> detect, result |-> found.result,
                           saved |-> NoPath, linked |-> found.result,
                           prior |-> PastedUnmodified(data), equal |-> SameContent(data)]
              /\ lastOp' = Op("paste", found.result, FALSE)
              /\ UNCHANGED <<images, fileData, clock, rebuild>>
         ELSE /\ clock < MaxClock
              /\ savePath # NoPath
              /\ fileData' = [q \in DOMAIN fileData \cup {savePath} |->
                                IF q = savePath THEN file ELSE fileData[q]]
              /\ images' = DOMAIN fileData'
              /\ clock' = clock + 1
              /\ cache' = HandleImageCreate(found.cache, savePath, file)
              /\ paste' = [data |-> data, called |-> detect, result |-> found.result,
                           saved |-> savePath, linked |-> savePath,
                           prior |-> PastedUnmodified(data), equal |-> SameContent(data)]
              /\ rebuild' = Disturb(rebuild)
              /\ lastOp' = Op("paste", savePath, FALSE)
      /\ UNCHANGED <<cacheFile, hashSettings, started, reading, hashFrame>>

\* rebuildCache's first statement: this.cache = {}
ClearedCache_Keep(c) == c

ClearedCache(c) == <<>>

\* the entries a cache has exactly when it is right about the vault
ExactEntries == {Entry(p, ComputeHash(fileData[p].data), fileData[p].mtime) : p \in DOMAIN fileData}

\* rebuildCache() up to its first await
RebuildCacheStart ==
  /\ started
  /\ rebuild.status # "running"
  /\ rebuild.runs < MaxRebuilds
  /\ cache' = ClearedCache(cache)
  /\ rebuild' = [status |-> "running", todo |-> SeqOfSet(DOMAIN fileData), quiet |-> TRUE,
                 stale |-> (Range(cache) # ExactEntries), runs |-> rebuild.runs + 1]
  /\ lastOp' = Op("other", NoPath, FALSE)
  /\ paste' = NoPaste
  /\ UNCHANGED <<images, fileData, clock, cacheFile, hashSettings, started, reading, hashFrame>>

\* rebuildCache() from one await to the next: calculateHash of the next image
\* (readBinary of a file that is gone rejects), and saveCache after the last
RebuildCacheStep(saved) ==
  /\ rebuild.status = "running"
  /\ IF rebuild.todo = <<>>
     THEN /\ cacheFile' = IF saved THEN [state |-> "valid", entries |-> cache] ELSE cacheFile
          /\ rebuild' = [rebuild EXCEPT !.status = "done"]
          /\ lastOp' = Op("rebuildDone", NoPath, FALSE)
          /\ UNCHANGED cache
     ELSE IF Head(rebuild.todo) \notin DOMAIN fileData
     THEN /\ saved
          /\ rebuild' = [rebuild EXCEPT !.status = "failed", !.todo = <<>>]
          /\ lastOp' = Op("other", NoPath, FALSE)
          /\ UNCHANGED <<cache, cacheFile>>
     ELSE /\ saved
          /\ cache' = CalculateHash(cache, Head(rebuild.todo), fileData[Head(rebuild.todo)]).cache
          /\ rebuild' = [rebuild EXCEPT !.todo = Tail(rebuild.todo)]
          /\ lastOp' = Op("other", NoPath, FALSE)
          /\ UNCHANGED cacheFile
  /\ paste' = NoPaste
  /\ UNCHANGED <<images, fileData, clock, hashSettings, started, reading, hashFrame>>

\* the persisted caches: entries an earlier session wrote, about the files as
\* they were then (an entry with the file's mtime has the file's digest)
PersistedEntries(files) ==
  {e \in [path : HashPaths, hash : {ComputeHash(d) : d \in Data}, mtime : 0..1] :
     (e.path \in DOMAIN files /\ e.mtime = files[e.path].mtime)
        => e.hash = ComputeHash(files[e.path].data)}

CacheFiles(files) ==
  {[state |-> st, entries |-> <<>>] : st \in {"absent", "corrupt", "unreadable"}} \cup
  {[state |-> "valid", entries |-> es] :
     es \in {q \in SeqsUpTo(PersistedEntries(files), MaxPersisted) :
               \A i, j \in DOMAIN q : q[i].path = q[j].path => i = j}}

\* the vault and the persisted cache when the plugin is enabled
HashInit ==
  /\ GalleryInit /\ LinkIdleInit
  /\ notes = {}
  /\ resolvedLinks = << >>
  /\ orphanHandling = "markOnly"
  /\ autoDetectOrphans = TRUE
  /\ orphanImages = {}
  /\ scans = <<>>
  /\ timers = 0
  /\ lastOp = Op("other", NoPath, FALSE)
  /\ dirty = FALSE
  /\ \E paths \in SUBSET HashPaths :
       fileData \in [paths -> {File(d, 1, FALSE) : d \in Data}]
  /\ images = DOMAIN fileData
  /\ clock = 1
  /\ cache = <<>>
  /\ cacheFile \in CacheFiles(fileData)
  /\ hashSettings \in [enableDuplicateDetection : BOOLEAN, duplicateAction : {"reuse", "rename"}]
  /\ started = FALSE
  /\ reading = NoRead
  /\ paste = NoPaste
  /\ rebuild = NoRebuild

HashNext ==
  \/ LoadCache
  \/ \E path \in HashPaths, data \in Data : ImageCreated(path, data)
  \/ \E path \in HashPaths, data \in Data : ImageModified(path, data)
  \/ \E path \in HashPaths : ImageRemoved(path)
  \/ \E oldPath, newPath \in HashPaths : ImageMoved(oldPath, newPath)
  \/ \E data \in Data : HandleImagePaste(data)
  \/ RebuildCacheStart
  \/ \E saved \in BOOLEAN : RebuildCacheStep(saved)

HashSpec == HashInit /\ [][HashNext]_vars

\* C13: when an image with some content was saved by a paste and still exists
\* unmodified, the duplicate check of a later paste of the same content
\* returns a file with that content
C13_SecondPasteFindsFirst ==
  (paste.called /\ paste.prior # {}) => paste.result \in paste.equal

\* the cache entry of the file at path was stored at another mtime
Stale(c, path) ==
  CacheHas(c, path) /\ path \in DOMAIN fileData /\ CacheGet(c, path).mtime # fileData[path].mtime

\* C14: a cached digest whose stored mtime is not the file's mtime is never
\* used without recomputation: calculateHash gives the digest of the current
\* content, and findDuplicate neither reports a file of other content by its
\* stale entry nor answers none while a file of the content has a stale entry
C14_StaleEntryNeverUsed ==
  started =>
    /\ \A p \in DOMAIN fileData :
         Stale(cache, p) =>
           CalculateHash(cache, p, fileData[p]).hash = ComputeHash(fileData[p].data)
    /\ \A data \in Data :
         LET result == FindDuplicate(cache, data).result
         IN  /\ (result # NoPath /\ Stale(cache, result)) => result \in SameContent(data)
             /\ result = NoPath => \A p \in SameContent(data) : ~Stale(cache, p)

\* C15: with duplicate detection enabled and duplicateAction 'reuse', a paste
\* of content equal to an existing image's creates no file and inserts a link
\* to an existing image of that content
C15_ReuseCreatesNoFile ==
  (paste.called /\ hashSettings.duplicateAction = "reuse" /\ paste.equal # {}) =>
    (paste.saved = NoPath /\ paste.linked \in paste.equal)

\* C18: when the persisted cache file cannot be read or parsed, loadCache does
\* not throw, the in-memory cache is empty and startup continues
C18_CorruptCacheLoadsEmpty ==
  (lastOp.op = "loaded" /\ cacheFile.state \in {"corrupt", "unreadable"}) =>
    (cache = <<>> /\ started)

C18_Witness ==
  lastOp.op = "loaded" /\ cacheFile.state = "corrupt" /\ cache = <<>> /\ started

\* the cache has exactly one entry per image of the vault, each with the digest
\* of the current content and the current mtime
CacheExact == Range(cache) = ExactEntries /\ Len(cache) = Cardinality(DOMAIN fileData)

\* C19 as stated: after rebuildCache() completes the cache is exact, whatever
\* it held before
C19_RebuildExact == lastOp.op = "rebuildDone" => CacheExact

\* C19 amended: after rebuildCache() completes the cache is exact, whatever it
\* held before, when no image was created, written, renamed or deleted while
\* the rebuild ran
C19_QuietRebuildExact == (lastOp.op = "rebuildDone" /\ rebuild.quiet) => CacheExact

C19_Witness ==
  /\ lastOp.op = "rebuildDone"
  /\ rebuild.quiet
  /\ rebuild.stale
  /\ DOMAIN fileData # {}
  /\ CacheExact

\* C20: the cache is never authoritative: right after loading, findDuplicate
\* on the persisted cache finds a duplicate exactly when findDuplicate on an
\* empty cache does, and the file either returns holds the new content
C20_CacheNeverAuthoritative ==
  lastOp.op = "loaded" =>
    \A data \in Data :
      LET persisted == FindDuplicate(cache, data).result
          empty     == FindDuplicate(<<>>, data).result
      IN  /\ (persisted = NoPath) <=> (empty = NoPath)
          /\ persisted # NoPath => persisted \in SameContent(data)
          /\ empty # NoPath => empty \in SameContent(data)

MaxRefTokens == 2

RefImagePaths == {<<"a", "b", "img", "x.png">>, <<"c", "x.png">>}

\* what a note can hold about an image: an embed ![[path]], an embed by bare
\* name ![[x.png]], or a plain link [[path]] (kind "link")
RefTokens ==
  {Token("wiki", 0, p) : p \in RefImagePaths} \cup
  {Token("link", 0, p) : p \in RefImagePaths} \cup
  {Token("wiki", 0, <<"x.png">>)}

\* getFileCache(note).embeds: the embeds among the note's links
Embeds(text) == {text[i] : i \in {j \in DOMAIN text : text[j].kind # "link"}}

\* the file the host resolves a link or an embed of a note to
HostTarget(t, sourcePath) ==
  IF t.kind = "link" THEN GetFirstLinkpathDest(t.segs, sourcePath)
  ELSE ResolveToken(t, sourcePath)

\* metadataCache.resolvedLinks[note]: the resolved links and embeds of the note
HostLinks(text, sourcePath) ==
  {HostTarget(text[i], sourcePath) : i \in DOMAIN text} \ {NoPath}

\* getReferencedImages(noteFile): the embeds that resolve to an image file
GetReferencedImages(notePath) ==
  {p \in {ResolveToken(t, notePath) : t \in Embeds(content[notePath])} :
     p # NoPath /\ IsImageFile(p)}

refFrame == <<settingVars, orphanImages, scans, timers, histVars, galleryVars, task, wlog,
              hashVars>>

\* a note is written and the host parses and resolves it
RefNoteWritten(notePath, text) ==
  /\ notePath \in notes
  /\ content' = [content EXCEPT ![notePath] = text]
  /\ resolvedLinks' = [resolvedLinks EXCEPT ![notePath] = HostLinks(text, notePath)]
  /\ lastOp' = Op("other", notePath, FALSE)
  /\ UNCHANGED <<images, notes, refFrame>>

\* an image file appears and the host resolves the links again
RefImageCreated(path) ==
  /\ path \notin images
  /\ images' = images \cup {path}
  /\ UNCHANGED <<notes, content, refFrame>>
  /\ resolvedLinks' = [n \in notes |-> HostLinks(content[n], n)]'
  /\ lastOp' = Op("other", path, FALSE)

\* an image file is deleted and the host resolves the links again
RefImageDeleted(path) ==
  /\ path \in images
  /\ images' = images \ {path}
  /\ UNCHANGED <<notes, content, refFrame>>
  /\ resolvedLinks' = [n \in notes |-> HostLinks(content[n], n)]'
  /\ lastOp' = Op("other", path, FALSE)

RefInit ==
  /\ images \in SUBSET RefImagePaths
  /\ notes = Notes
  /\ content \in [Notes -> SeqsUpTo(RefTokens, MaxRefTokens)]
  /\ resolvedLinks = [n \in notes |-> HostLinks(content[n], n)]
  /\ orphanHandling = "markOnly"
  /\ autoDetectOrphans = TRUE
  /\ orphanImages = {}
  /\ scans = <<>>
  /\ timers = 0
  /\ lastOp = Op("other", NoPath, FALSE)
  /\ dirty = FALSE
  /\ task = IdleTask
  /\ wlog = <<>>
  /\ GalleryInit
  /\ HashIdleInit

RefNext ==
  \/ \E n \in Notes, text \in SeqsUpTo(RefTokens, MaxRefTokens) : RefNoteWritten(n, text)
  \/ \E path \in RefImagePaths : RefImageCreated(path)
  \/ \E path \in RefImagePaths : RefImageDeleted(path)

RefSpec == RefInit /\ [][RefNext]_vars

\* C16: the inverse reference map is the transpose of the forward map: image i
\* is in getReferencedImages(n) iff note n is in findNotesReferencingImage(i)
C16_InverseIsTranspose ==
  \A n \in notes, i \in RefImagePaths :
    i \in GetReferencedImages(n) <=> n \in FindNotesReferencingImage(i)

ImageInfo(path, referencedBy, isOrphan) ==
  [path |-> path, referencedBy |-> referencedBy, isOrphan |-> isOrphan]

\* what getOrphanImageInfos() returns: one info per path of the orphan set
\* whose file exists
GetOrphanImageInfos == {ImageInfo(p, {}, TRUE) : p \in orphanImages \cap images}

\* what getAllImageInfos() returns: one info per image of the vault
AllImageInfos ==
  {ImageInfo(p, FindNotesReferencingImage(p), FindNotesReferencingImage(p) = {}) :
     p \in {q \in images : IsImageFile(q)}}

\* C17: every ImageInfo of getAllImageInfos or getOrphanImageInfos has isOrphan
\* equal to (referencedBy is empty), and referencedBy is the set of notes that
\* reference the image when the query is made
C17_ImageInfoConsistent ==
  \A info \in GetOrphanImageInfos \cup AllImageInfos :
    /\ info.isOrphan = (info.referencedBy = {})
    /\ info.referencedBy = FindNotesReferencingImage(info.path)

\* C21 as stated: when a scan returns, the orphan set has exactly the members
\* of the returned list, so nothing an earlier scan, isOrphan or
\* getAllImageInfos call put there is left, and the image a suspended scan
\* handled last, which is in the list it returns, is in the set
C21_ReturnedListIsSet ==
  [][lastOp'.op = "scanReturn" =>
       /\ Len(scans') = Len(scans) => orphanImages' = Range(ScanOrphans)
       /\ \A i \in DOMAIN scans :
            scans' = RemoveAt(scans, i) => Range(scans[i].todo) \subseteq orphanImages']_vars

\* C21 as amended: when scanOrphanImages has built its list, that is when it
\* suspends in moveOrphansToFolder or returns without moving, the orphan set
\* has exactly the members of the list, whatever it held before
C21_BuiltListIsSet ==
  [][(lastOp'.op = "scanSuspend" \/ (lastOp'.op = "scanReturn" /\ Len(scans') = Len(scans))) =>
       orphanImages' = Range(ScanOrphans)]_vars

\* a scan that returned without suspending has dropped a path an earlier call
\* had left in the set
C21_Witness ==
  /\ lastOp.op = "scanReturn"
  /\ orphanHandling = "markOnly"
  /\ lastOp.path # NoPath
  /\ orphanImages = Range(ScanOrphans)

\* C22: moveOrphansToFolder goes through its whole list: a failure on one
\* image, in the existence check or in the rename, does not keep the images
\* after it from being moved, so a scan ends only after its last listed image
C22_FailureSkipsOneImage ==
  [][\A i \in DOMAIN scans :
       scans' = RemoveAt(scans, i) => Len(scans[i].todo) = 1]_vars

\* images in the vault root and in a note's folder, with a shared file name
BarePaths == {<<"x.png">>, <<"a", "b", "x.png">>, <<"y.png">>}

\* an image file is renamed in the vault
BareFileMoved(oldPath, newPath) ==
  /\ Len(wlog) < MaxRewrites
  /\ oldPath \in images
  /\ newPath \in BarePaths \ images
  /\ images' = (images \ {oldPath}) \cup {newPath}
  /\ lastOp' = Op("other", NoPath, FALSE)
  /\ UNCHANGED <<notes, resolvedLinks, linkVars, linkFrame>>

BareInit ==
  /\ images \in SUBSET BarePaths
  /\ notes = Notes
  /\ content \in [Notes -> SeqsUpTo({Token("wiki", 0, <<FileName(p)>>) : p \in BarePaths},
                                    MaxTokens)]
  /\ resolvedLinks = [n \in notes |-> ResolvedTargets(content[n], n)]
  /\ orphanHandling = "markOnly"
  /\ autoDetectOrphans = TRUE
  /\ orphanImages = {}
  /\ scans = <<>>
  /\ timers = 0
  /\ lastOp = Op("other", NoPath, FALSE)
  /\ dirty = FALSE
  /\ task = IdleTask
  /\ wlog = <<>>
  /\ GalleryInit
  /\ HashIdleInit

BareNext ==
  \/ \E oldPath, newPath \in BarePaths : BareFileMoved(oldPath, newPath)
  \/ \E n \in Notes, oldPath, newPath \in BarePaths : UpdateLinksInNote(n, oldPath, newPath)

BareSpec == BareInit /\ [][BareNext]_vars

\* C23: updateLinksInNote rewrites a bare-filename wikilink only when the
\* file name changed and the bare name resolves, from that note, to oldPath;
\* then it is rewritten to the new file name, else it is left as it was
C23_BareWikilinkRule ==
  [][Len(wlog') > Len(wlog) =>
       LET e == wlog'[Len(wlog')]
       IN  \A i \in DOMAIN e.before :
             LET t        == e.before[i]
                 changed  == FileName(e.oldPath) # FileName(e.newPath)
                 resolves == GetFirstLinkpathDest(t.segs, e.note) = e.oldPath
             IN  (t.kind = "wiki" /\ Len(t.segs) = 1) =>
                   IF changed /\ resolves
                   THEN e.after[i] = Token("wiki", 0, <<FileName(e.newPath)>>)
                   ELSE e.after[i] = t]_vars

\* C24: batchUpdateReferences works through its pairs in the given order,
\* every updateLinksInNote call reads the note as the earlier pairs left it,
\* the returned number is the sum of the per-pair counts, and when a pair
\* fails the notes written by the earlier pairs keep what was written
C24_BatchSequentialSum ==
  LET \* the last entry before j in which note n was written, 0 if none
      LastWriteBefore(n, j) ==
        LET w == {i \in WrittenEntries : i < j /\ wlog[i].note = n}
        IN  IF w = {} THEN 0 ELSE CHOOSE i \in w : \A k \in w : k <= i
      PreviousWrite(j) == LastWriteBefore(wlog[j].note, j)
      LastWrite(n) == LastWriteBefore(n, Len(wlog) + 1)
  IN
  task.batch =>
    /\ \A i, j \in DOMAIN wlog : i < j => wlog[i].idx <= wlog[j].idx
    /\ \A j \in DOMAIN wlog :
         PreviousWrite(j) # 0 => wlog[j].before = wlog[PreviousWrite(j)].after
    /\ task.status = "returned" => task.totalUpdated = Cardinality(WrittenEntries)
    /\ task.status = "thrown" =>
         \A n \in notes : LastWrite(n) # 0 => content[n] = wlog[LastWrite(n)].after

\* a batch whose second pair failed after its first pair had written a note
C24_Witness ==
  /\ task.batch
  /\ task.status = "thrown"
  /\ \E i \in WrittenEntries : wlog[i].idx = 1
  /\ \E j \in FailedEntries : wlog[j].idx = 2

(***************************************************************************)
(* findDuplicate on a cache loaded with several entries.                   *)
(***************************************************************************)
MaxLoaded == 2

\* the plugin has loaded a cache file of up to MaxLoaded entries, written in
\* an earlier session, over the vault as it is now
DupInit ==
  /\ GalleryInit /\ LinkIdleInit
  /\ notes = {}
  /\ resolvedLinks = << >>
  /\ orphanHandling = "markOnly"
  /\ autoDetectOrphans = TRUE
  /\ orphanImages = {}
  /\ scans = <<>>
  /\ timers = 0
  /\ lastOp = Op("loaded", NoPath, FALSE)
  /\ dirty = FALSE
  /\ \E paths \in SUBSET HashPaths :
       fileData \in [paths -> {File(d, 1, FALSE) : d \in Data}]
  /\ images = DOMAIN fileData
  /\ clock = 1
  /\ cache \in {q \in SeqsUpTo(PersistedEntries(fileData), MaxLoaded) :
                  \A i, j \in DOMAIN q : q[i].path = q[j].path => i = j}
  /\ cacheFile = [state |-> "valid", entries |-> cache]
  /\ hashSettings \in [enableDuplicateDetection : BOOLEAN, duplicateAction : {"reuse", "rename"}]
  /\ started = TRUE
  /\ reading = NoRead
  /\ paste = NoPaste
  /\ rebuild = NoRebuild

DupNext ==
  \/ \E data \in Data : HandleImagePaste(data)
  \/ \E path \in HashPaths : ImageRemoved(path)

DupSpec == DupInit /\ [][DupNext]_vars

\* C25: the path findDuplicate returns is the path of an existing file, and
\* when it has returned the cache holds no entry with the digest of the new
\* content whose file does not exist
C25_NoDeadEntryWithDigest ==
  (lastOp.op = "paste" /\ paste.called) =>
    /\ paste.result # NoPath => paste.result \in DOMAIN fileData
    /\ \A i \in DOMAIN cache :
         cache[i].hash = ComputeHash(paste.data) => cache[i].path \in DOMAIN fileData

(***************************************************************************)
(* Overlapping scans: scan commands given while earlier scans are still    *)
(* moving orphans.                                                         *)
(***************************************************************************)
MaxOverlap == 2

OverlapInit ==
  /\ Init
  /\ orphanHandling = "moveToFolder"

OverlapNext ==
  \/ ScanOrphanImagesUpTo(FALSE, MaxOverlap)
  \/ \E i \in 1..MaxOverlap, outcome \in MoveOutcomes : MoveStep(i, outcome)
  \/ \E p \in ImagePaths : ImageCreate(p)
  \/ \E n \in Notes, refs \in EmbedSets : NoteModify(n, refs)

OverlapSpec == OverlapInit /\ [][OverlapNext]_vars

\* C26: a scan that resumes after a later scan has started leaves the orphan
\* set alone, and when the last of the overlapping scans returns the orphan
\* set is what a scan of the vault as it is then finds
C26_LatestScanWins ==
  [][\A i \in DOMAIN scans :
       scans' = RemoveAt(scans, i) =>
         /\ scans[i].overlapped => orphanImages' = orphanImages
         /\ (scans' = <<>> /\ scans[i].overlapped /\ lastOp'.op = "scanReturn") =>
              orphanImages' = Range(ScanOrphans)']_vars

\* C30: while no scan is suspended, every path in the orphan set is the path
\* of an image that exists in the vault
C30_OrphanSetExists == scans = <<>> => orphanImages \subseteq images

(***************************************************************************)
(* The hash cache while handlers are suspended: events during startup,     *)
(* before loadCache has completed, and file changes while calculateHash    *)
(* awaits readBinary.                                                      *)
(***************************************************************************)
\* vault 'create' of an image, handled from registerEventHandlers on, that is
\* also before loadCache has completed: handleImageCreate calls
\* calculateHash, which returns at once on a valid entry and else suspends in
\* readBinary; the read delivers the content the file has now
CreateEvent(path, data) ==
  LET file == File(data, clock + 1, FALSE)
  IN  /\ clock < MaxClock
      /\ reading = NoRead
      /\ path \in HashPaths \ DOMAIN fileData
      /\ fileData' = [q \in DOMAIN fileData \cup {path} |->
                        IF q = path THEN file ELSE fileData[q]]
      /\ images' = DOMAIN fileData'
      /\ clock' = clock + 1
      /\ reading' = IF hashSettings.enableDuplicateDetection
                       /\ ~(CacheHas(cache, path) /\ CacheGet(cache, path).mtime = file.mtime)
                    THEN [path |-> path, data |-> data, mtime |-> file.mtime]
                    ELSE NoRead
      /\ lastOp' = Op("other", NoPath, FALSE)
      /\ UNCHANGED <<cache, cacheFile, hashSettings, started, paste, rebuild, hashFrame>>

\* calculateHash resumes: the digest of the data read is stored with
\* file.stat.mtime as it is now
ReadDone ==
  /\ reading # NoRead
  /\ cache' = CachePut(cache, reading.path, ComputeHash(reading.data),
                       IF reading.path \in DOMAIN fileData
                       THEN fileData[reading.path].mtime ELSE reading.mtime)
  /\ reading' = NoRead
  /\ lastOp' = Op("readDone", NoPath, FALSE)
  /\ UNCHANGED <<images, fileData, clock, cacheFile, hashSettings, started, paste, rebuild,
                 hashFrame>>

AsyncNext ==
  \/ LoadCache
  \/ \E path \in HashPaths, data \in Data : CreateEvent(path, data)
  \/ ReadDone
  \/ \E path \in HashPaths, data \in Data : ImageModified(path, data)
  \/ \E path \in HashPaths : ImageRemoved(path)
  \/ \E oldPath, newPath \in HashPaths, rewritten \in BOOLEAN :
       ImageMovedWith(oldPath, newPath, rewritten)

AsyncSpec == HashInit /\ [][AsyncNext]_vars

\* C27: a cache entry that carries the current mtime of its file carries the
\* digest of the file's current content
C27_ValidEntryIsCurrent ==
  \A i \in DOMAIN cache :
    (cache[i].path \in DOMAIN fileData /\ cache[i].mtime = fileData[cache[i].path].mtime)
      => cache[i].hash = ComputeHash(fileData[cache[i].path].data)

\* C28: the entries the create handler has put in the cache before loadCache
\* completes are in the cache when loadCache has completed
C28_StartupEntriesKept ==
  [][lastOp'.op = "loaded" =>
       \A i \in DOMAIN cache :
         CacheHas(cache', cache[i].path) /\ CacheGet(cache', cache[i].path) = cache[i]]_vars

\* C29: when the rename handler has finished for old -> new the cache has no
\* entry under old, and the entry that was under old is under new with its
\* hash and mtime; when the delete handler has finished the cache has no
\* entry for the deleted path
C29_CacheFollowsFile ==
  [][\A old \in DOMAIN fileData \ DOMAIN fileData' :
       /\ ~CacheHas(cache', old)
       /\ \A new \in DOMAIN fileData' \ DOMAIN fileData :
            CacheHas(cache, old) =>
              /\ CacheHas(cache', new)
              /\ CacheGet(cache', new).hash = CacheGet(cache, old).hash
              /\ CacheGet(cache', new).mtime = CacheGet(cache, old).mtime]_vars

====
